---- MODULE Spec2Model ----
(***************************************************************************)
(* Model of the Nmap inventory pipeline of ExtendingAnsibleWithPython:     *)
(*   NmapRunner (executable lookup, one subprocess, destructive iterator), *)
(*   OutputParser.get_addresses (both parser variants),                    *)
(*   the two inventory builders: the plugin's InventoryModule.parse and    *)
(*   the command line script's get_list.                                   *)
(*                                                                         *)
(* adapter = "plugin": plugins/inventory/nmap_plugin.py (the copy under    *)
(*   inventories/nmap_plugin.py has the same parse, parser and runner).    *)
(* adapter = "cli": scripts/nmap_inventory.py, which imports NmapRunner    *)
(*   and, through it, OutputParser from inventories/nmap.py.               *)
(***************************************************************************)
EXTENDS Naturals, Sequences, FiniteSets

VARIABLES
    adapter,     \* which entry point runs: "plugin" or "cli"
    hostArg,     \* cli only: --host was given (args.host is truthy)
    pc,          \* position of the invocation
    outcome,     \* "running", "ok", or the exception that ended the invocation
    lookup,      \* result of shutil.which: "none" (not called), "found", "missing"
    spawned,     \* number of subprocess.run calls made
    exitCode,    \* "none" before the subprocess ends, then "0" or "1"
    wellformed,  \* the captured standard output is well-formed XML
    stdout,      \* the captured report: the sequence of its <host> blocks
    parsed,      \* OutputParser.get_addresses has been called
    addresses,   \* NmapRunner.addresses
    hosts_data,  \* the list being built by list(NmapRunner(...))
    inventory,   \* plugin: self.inventory, as [hosts, vars]
    printed      \* cli: what was printed on standard output

vars == <<adapter, hostArg, pc, outcome, lookup, spawned, exitCode, wellformed,
          stdout, parsed, addresses, hosts_data, inventory, printed>>

\* Python's None, as a string so that it compares with names and addresses.
None == "None"

(***************************************************************************)
(* Bounds of the report documents.                                         *)
(***************************************************************************)
\* Number of host blocks in a report whose blocks take every modelled shape.
MaxDeepHosts == 1
\* Number of host blocks in a report whose blocks are plain.
MaxWideHosts == 2

SeqsUpTo(S, n) == UNION {[1..k -> S] : k \in 0..n}

Port(portid, state) == [portid |-> portid, state |-> state]

\* <hostnames> groups of a host block, each the sequence of its <hostname> names.
HostnamesShapes ==
    { <<>>,
      << <<"h1">> >>,
      << <<"h2", "h1">> >>,
      << <<"h1">>, <<"h2">> >>,
      << <<"h1">>, <<>> >>,
      << <<>>, <<"h2">> >> }

\* <status state=...> records of a host block.
StatusShapes == { <<>>, <<"up">>, <<"down">>, <<"up", "down">> }

\* <ports> groups of a host block, each the sequence of its <port> records.
PortsShapes ==
    { <<>>,
      << <<Port("22", <<"open">>)>> >>,
      << <<Port("80", <<"open">>), Port("22", <<"closed">>)>> >>,
      << <<Port("80", <<"closed">>)>>, <<Port("22", <<"filtered", "open">>)>> >> }

\* <address addr=...> records of a host block.
AddressShapes == { <<>>, <<"a1">>, <<"a2">>, <<"a2", "a1">> }

HostBlock(hn, st, po, ad) ==
    [hostnames |-> hn, status |-> st, ports |-> po, address |-> ad]

DeepHosts ==
    { HostBlock(hn, st, po, ad) :
        hn \in HostnamesShapes, st \in StatusShapes,
        po \in PortsShapes, ad \in AddressShapes }

WideHosts ==
    { HostBlock(hn, st, << <<Port("22", <<po>>)>> >>, <<ad>>) :
        hn \in { <<>>, << <<"h1">> >>, << <<"h2">> >> },
        st \in { <<"up">>, <<"down">> },
        po \in { "open", "closed" },
        ad \in { "a1", "a2" } }

Docs == SeqsUpTo(DeepHosts, MaxDeepHosts) \cup SeqsUpTo(WideHosts, MaxWideHosts)

(***************************************************************************)
(* OutputParser.get_addresses.  A record of the result carries src, the    *)
(* index of the host block it was appended for: src is not program state,  *)
(* it only lets the properties name the block a record comes from.         *)
(***************************************************************************)

\* "if not name": None and the empty string are both falsy.
Falsy(name) == name = None \/ name = ""

\* for hostnames in host.findall('hostnames'):
\*     for hostname in hostnames: name = hostname.attrib['name']; break
\* The break leaves the inner loop only: every non-empty group assigns name.
RECURSIVE hostname_loop(_, _, _)
hostname_loop(groups, g, name) ==
    IF g > Len(groups) THEN name
    ELSE hostname_loop(groups, g + 1,
                       IF groups[g] # <<>> THEN groups[g][1] ELSE name)

\* A faulty is_up that reads the first status record only.
is_up_first_status_only(host) == host.status = <<>> \/ host.status[1] # "down"

\* is_up stays True unless a status record has state 'down'.
is_up(host) == \A s \in DOMAIN host.status : host.status[s] # "down"

\* A faulty port_22_open that drops the portid test: any open port counts.
port_22_open_any_port(host) ==
    \E g \in DOMAIN host.ports : \E p \in DOMAIN host.ports[g] :
        \E s \in DOMAIN host.ports[g][p].state : host.ports[g][p].state[s] = "open"

\* port_22_open becomes True on a port with portid '22' having a state 'open'.
port_22_open(host) ==
    \E g \in DOMAIN host.ports : \E p \in DOMAIN host.ports[g] :
        /\ host.ports[g][p].portid = "22"
        /\ \E s \in DOMAIN host.ports[g][p].state : host.ports[g][p].state[s] = "open"

\* address = None; for address_data in host.findall('address'): address = ...; break
first_address(host) == IF host.address = <<>> THEN None ELSE host.address[1]

\* The record {name: address} of the plugin parser.
DictRec(name, addr, src) == [isdict |-> TRUE, name |-> name, addr |-> addr, src |-> src]
\* The record of the nmap.py parser: the address string alone.
StrRec(addr, src) == [isdict |-> FALSE, name |-> None, addr |-> addr, src |-> src]

RECURSIVE plugin_host_loop(_, _)
plugin_host_loop(xml, i) ==
    IF i > Len(xml) THEN <<>>
    ELSE LET host == xml[i]
             name == hostname_loop(host.hostnames, 1, None)
             rest == plugin_host_loop(xml, i + 1)
         IN  IF Falsy(name) THEN rest
             ELSE IF ~is_up(host) THEN rest
             ELSE IF ~port_22_open(host) THEN rest
             ELSE <<DictRec(name, first_address(host), i)>> \o rest

plugin_get_addresses(xml) == plugin_host_loop(xml, 1)

\* for address in host.findall('address'): addresses.append(address.attrib['addr'])
host_addresses(host, i) == [k \in DOMAIN host.address |-> StrRec(host.address[k], i)]

RECURSIVE nmap_host_loop(_, _)
nmap_host_loop(xml, i) ==
    IF i > Len(xml) THEN <<>>
    ELSE LET host == xml[i]
             rest == nmap_host_loop(xml, i + 1)
         IN  IF ~is_up(host) THEN rest
             ELSE IF ~port_22_open(host) THEN rest
             ELSE host_addresses(host, i) \o rest

nmap_get_addresses(xml) == nmap_host_loop(xml, 1)

\* The parser each adapter's NmapRunner calls.
get_addresses(a, xml) ==
    IF a = "plugin" THEN plugin_get_addresses(xml) ELSE nmap_get_addresses(xml)

(***************************************************************************)
(* The initial state: an adapter is about to run.  Ansible hands parse the *)
(* inventory shared by all inventory sources: it is empty, or already      *)
(* holds a host that an earlier source added.                              *)
(***************************************************************************)
EmptyInventory == [hosts |-> <<>>, vars |-> <<>>]
InitialInventories ==
    { EmptyInventory, [hosts |-> <<"h1">>, vars |-> << <<"h1", "a0">> >>] }
NothingPrinted == [what |-> "nothing", hostvars |-> <<>>, ungrouped |-> <<>>]

Init ==
    /\ adapter \in {"plugin", "cli"}
    /\ hostArg \in BOOLEAN
    /\ (adapter = "plugin" => hostArg = FALSE)
    /\ pc = "start"
    /\ outcome = "running"
    /\ lookup = "none"
    /\ spawned = 0
    /\ exitCode = "none"
    /\ wellformed = TRUE
    /\ stdout = <<>>
    /\ parsed = FALSE
    /\ addresses = <<>>
    /\ hosts_data = <<>>
    /\ inventory \in InitialInventories
    /\ (adapter = "cli" => inventory = EmptyInventory)
    /\ printed = NothingPrinted

\* An exception leaves the adapter: the invocation is over.
Raise(exc) == pc' = "done" /\ outcome' = exc

(***************************************************************************)
(* scripts/nmap_inventory.py, __main__ with --host: print(get_empty_vars())*)
(***************************************************************************)
get_empty_vars ==
    /\ pc = "start" /\ adapter = "cli" /\ hostArg
    /\ printed' = [what |-> "vars", hostvars |-> <<>>, ungrouped |-> <<>>]
    /\ pc' = "done" /\ outcome' = "ok"
    /\ UNCHANGED <<adapter, hostArg, lookup, spawned, exitCode, wellformed, stdout,
                   parsed, addresses, hosts_data, inventory>>

\* A faulty NmapRunner.__init__ that does not raise when the lookup fails.
NmapRunner_init_no_raise ==
    /\ pc = "start" /\ ~hostArg
    /\ \E found_nmap \in BOOLEAN :
         lookup' = IF found_nmap THEN "found" ELSE "missing"
    /\ pc' = "constructed"
    /\ UNCHANGED <<adapter, hostArg, outcome, spawned, exitCode, wellformed, stdout,
                   parsed, addresses, hosts_data, inventory, printed>>

(***************************************************************************)
(* NmapRunner.__init__: shutil.which('nmap'), ValueError when not found.   *)
(***************************************************************************)
NmapRunner_init ==
    /\ pc = "start" /\ ~hostArg
    /\ \E found_nmap \in BOOLEAN :
         IF ~found_nmap
         THEN /\ lookup' = "missing"
              /\ Raise("ValueError")
         ELSE /\ lookup' = "found"
              /\ pc' = "constructed"
              /\ UNCHANGED outcome
    /\ UNCHANGED <<adapter, hostArg, spawned, exitCode, wellformed, stdout,
                   parsed, addresses, hosts_data, inventory, printed>>

\* What the adapter sees of a CalledProcessError: the plugin's parse catches it
\* and raises AnsibleParserError; get_list lets it through.
ScanFailed(a) ==
    IF a = "plugin" THEN "AnsibleParserError: error while calling Nmap"
    ELSE "CalledProcessError"

\* A faulty NmapRunner.__iter__ that runs the subprocess without check=True
\* and parses whatever was captured.
NmapRunner_iter_unchecked ==
    /\ pc = "constructed"
    /\ spawned' = spawned + 1
    /\ \E returncode \in {"0", "1"}, wf \in BOOLEAN, xml \in Docs :
         /\ exitCode' = returncode
         /\ wellformed' = wf
         /\ parsed' = TRUE
         /\ IF ~wf
            THEN /\ stdout' = <<>>
                 /\ pc' = "done" /\ outcome' = "ParseError"
                 /\ UNCHANGED addresses
            ELSE /\ stdout' = xml
                 /\ addresses' = get_addresses(adapter, xml)
                 /\ pc' = "iterating"
                 /\ UNCHANGED outcome
    /\ UNCHANGED <<adapter, hostArg, lookup, hosts_data, inventory, printed>>

(***************************************************************************)
(* NmapRunner.__iter__: subprocess.run(command, check=True), then          *)
(* OutputParser(stdout).get_addresses().                                   *)
(***************************************************************************)
NmapRunner_iter ==
    /\ pc = "constructed"
    /\ spawned' = spawned + 1
    /\ \E returncode \in {"0", "1"}, wf \in BOOLEAN, xml \in Docs :
         /\ exitCode' = returncode
         /\ IF returncode # "0"
            THEN /\ Raise(ScanFailed(adapter))
                 /\ UNCHANGED <<wellformed, stdout, parsed, addresses>>
            ELSE /\ wellformed' = wf
                 /\ parsed' = TRUE
                 /\ IF ~wf
                    THEN /\ stdout' = <<>>
                         /\ Raise("ParseError")
                         /\ UNCHANGED addresses
                    ELSE /\ stdout' = xml
                         /\ addresses' = get_addresses(adapter, xml)
                         /\ pc' = "iterating"
                         /\ UNCHANGED outcome
    /\ UNCHANGED <<adapter, hostArg, lookup, hosts_data, inventory, printed>>

(***************************************************************************)
(* NmapRunner.__next__, called by list(): self.addresses.pop() takes the   *)
(* last element; IndexError on the empty list ends the iteration.          *)
(***************************************************************************)
NmapRunner_next ==
    /\ pc = "iterating"
    /\ IF addresses # <<>>
       THEN /\ hosts_data' = Append(hosts_data, addresses[Len(addresses)])
            /\ addresses' = SubSeq(addresses, 1, Len(addresses) - 1)
            /\ UNCHANGED pc
       ELSE /\ pc' = "collected"
            /\ UNCHANGED <<addresses, hosts_data>>
    /\ UNCHANGED <<adapter, hostArg, outcome, lookup, spawned, exitCode, wellformed,
                   stdout, parsed, inventory, printed>>

(***************************************************************************)
(* InventoryModule.parse, after hosts_data = list(NmapRunner(address)).    *)
(* inventory.add_host and inventory.set_variable are Ansible's: add_host   *)
(* of a known host adds nothing, set_variable replaces the variable.       *)
(***************************************************************************)
add_host(inv, name) ==
    IF \E k \in DOMAIN inv.hosts : inv.hosts[k] = name
    THEN inv
    ELSE [inv EXCEPT !.hosts = Append(inv.hosts, name)]

\* vars is the sequence of <<host, value>> pairs of the 'ip' variable.
set_variable(inv, name, value) ==
    IF \E k \in DOMAIN inv.vars : inv.vars[k][1] = name
    THEN [inv EXCEPT !.vars =
            [k \in DOMAIN inv.vars |->
                IF inv.vars[k][1] = name THEN <<name, value>> ELSE inv.vars[k]]]
    ELSE [inv EXCEPT !.vars = Append(inv.vars, <<name, value>>)]

\* for host_data in hosts_data: for name, address in host_data.items(): ...
RECURSIVE parse_loop(_, _, _)
parse_loop(inv, data, k) ==
    IF k > Len(data) THEN inv
    ELSE parse_loop(set_variable(add_host(inv, data[k].name), data[k].name, data[k].addr),
                    data, k + 1)

\* A faulty parse that registers the scan target as a host before it knows
\* whether the scan gave any host.
InventoryModule_parse_early_add ==
    /\ pc = "collected" /\ adapter = "plugin"
    /\ IF hosts_data = <<>>
       THEN /\ Raise("AnsibleParserError: Unable to get data for Nmap scan")
            /\ inventory' = add_host(inventory, "target")
       ELSE /\ inventory' = parse_loop(add_host(inventory, "target"), hosts_data, 1)
            /\ pc' = "done" /\ outcome' = "ok"
    /\ UNCHANGED <<adapter, hostArg, lookup, spawned, exitCode, wellformed, stdout,
                   parsed, addresses, hosts_data, printed>>

InventoryModule_parse ==
    /\ pc = "collected" /\ adapter = "plugin"
    /\ IF hosts_data = <<>>
       THEN /\ Raise("AnsibleParserError: Unable to get data for Nmap scan")
            /\ UNCHANGED inventory
       ELSE /\ inventory' = parse_loop(inventory, hosts_data, 1)
            /\ pc' = "done" /\ outcome' = "ok"
    /\ UNCHANGED <<adapter, hostArg, lookup, spawned, exitCode, wellformed, stdout,
                   parsed, addresses, hosts_data, printed>>

(***************************************************************************)
(* get_list of scripts/nmap_inventory.py, after                            *)
(* found_data = list(NmapRunner(search_address)), and the print of its     *)
(* result by __main__.  host_data.items() exists on a dictionary only: on  *)
(* the strings that inventories/nmap.py yields it raises AttributeError.   *)
(***************************************************************************)
\* hostvars is the sequence of <<name, ip list>> pairs, ungrouped the list of names.
RECURSIVE get_list_loop(_, _, _, _)
get_list_loop(hostvars, ungrouped, data, k) ==
    IF k > Len(data)
    THEN [error |-> FALSE, hostvars |-> hostvars, ungrouped |-> ungrouped]
    ELSE IF ~data[k].isdict
    THEN [error |-> TRUE, hostvars |-> hostvars, ungrouped |-> ungrouped]
    ELSE LET name == data[k].name
             address == data[k].addr
             ungrouped1 == IF \E j \in DOMAIN ungrouped : ungrouped[j] = name
                           THEN ungrouped ELSE Append(ungrouped, name)
             hostvars1 == IF \E j \in DOMAIN hostvars : hostvars[j][1] = name
                          THEN hostvars ELSE Append(hostvars, <<name, <<>> >>)
             hostvars2 == [j \in DOMAIN hostvars1 |->
                             IF hostvars1[j][1] = name
                             THEN <<name, Append(hostvars1[j][2], address)>>
                             ELSE hostvars1[j]]
         IN  get_list_loop(hostvars2, ungrouped1, data, k + 1)

get_list ==
    /\ pc = "collected" /\ adapter = "cli"
    /\ LET data == get_list_loop(<<>>, <<>>, hosts_data, 1)
       IN  IF data.error
           THEN /\ Raise("AttributeError")
                /\ UNCHANGED printed
           ELSE /\ printed' = [what |-> "list", hostvars |-> data.hostvars,
                               ungrouped |-> data.ungrouped]
                /\ pc' = "done" /\ outcome' = "ok"
    /\ UNCHANGED <<adapter, hostArg, lookup, spawned, exitCode, wellformed, stdout,
                   parsed, addresses, hosts_data, inventory>>

Next ==
    \/ get_empty_vars
    \/ NmapRunner_init
    \/ NmapRunner_iter
    \/ NmapRunner_next
    \/ InventoryModule_parse
    \/ get_list

Spec == Init /\ [][Next]_vars

(***************************************************************************)
(* Properties.  The predicates below read the report itself, as the        *)
(* specification words them; they use none of the parser's operators.      *)
(***************************************************************************)
\* The report has been parsed into records (well-formed output, exit status 0).
Parsed == parsed /\ wellformed

\* The records obtained from the scan: those still held by the runner and
\* those already delivered to the caller.
Emitted == {addresses[k] : k \in DOMAIN addresses} \cup
           {hosts_data[k] : k \in DOMAIN hosts_data}

\* Number of records held or delivered for host block i of the report.
RecordsOf(i) ==
    Cardinality({k \in DOMAIN addresses : addresses[k].src = i}) +
    Cardinality({k \in DOMAIN hosts_data : hosts_data[k].src = i})

HasDownStatus(h) == \E s \in DOMAIN h.status : h.status[s] = "down"

HasOpen22(h) ==
    \E g \in DOMAIN h.ports : \E p \in DOMAIN h.ports[g] :
        /\ h.ports[g][p].portid = "22"
        /\ \E s \in DOMAIN h.ports[g][p].state : h.ports[g][p].state[s] = "open"

HasHostname(h) == \E g \in DOMAIN h.hostnames : h.hostnames[g] # <<>>

\* The first hostname record of the block in document order, over all groups.
FirstHostname(h) ==
    LET g == CHOOSE g1 \in DOMAIN h.hostnames :
                 /\ h.hostnames[g1] # <<>>
                 /\ \A g2 \in DOMAIN h.hostnames : g2 < g1 => h.hostnames[g2] = <<>>
    IN  h.hostnames[g][1]

\* An eligible host block: up, port 22 open, at least one hostname.
Eligible(h) == ~HasDownStatus(h) /\ HasOpen22(h) /\ HasHostname(h)

\* C1: a host block with a status record "down", or without an "open" state
\* under port-id "22", gets no record from get_addresses, whatever its
\* hostnames and addresses are (both parser variants).
C1_NoRecordForDownOrClosed ==
    Parsed =>
        \A i \in DOMAIN stdout :
            (HasDownStatus(stdout[i]) \/ ~HasOpen22(stdout[i])) => RecordsOf(i) = 0

\* A parsed report with a down block and a block whose port 22 is not open,
\* both named and addressed.
C1_Witness ==
    /\ Parsed /\ pc = "iterating"
    /\ \E i, j \in DOMAIN stdout :
        /\ HasDownStatus(stdout[i]) /\ HasOpen22(stdout[i])
        /\ HasHostname(stdout[i]) /\ stdout[i].address # <<>>
        /\ ~HasDownStatus(stdout[j]) /\ ~HasOpen22(stdout[j])
        /\ HasHostname(stdout[j]) /\ stdout[j].address # <<>>

\* C2: a host block without a hostname record gets no record from
\* get_addresses, and every record carries a non-empty name.
C2_NoRecordWithoutHostname ==
    Parsed =>
        /\ \A i \in DOMAIN stdout : ~HasHostname(stdout[i]) => RecordsOf(i) = 0
        /\ \A r \in Emitted : r.name # None /\ r.name # ""

InDocumentOrder(s) == \A j, k \in DOMAIN s : j < k => s[j].src <= s[k].src

\* C4: the records are in document order, in the list get_addresses returns
\* and in the list obtained by draining NmapRunner.
C4_DocumentOrder ==
    /\ (Parsed /\ pc = "iterating" /\ hosts_data = <<>>) => InDocumentOrder(addresses)
    /\ pc \in {"collected", "done"} => InDocumentOrder(hosts_data)

\* The addresses the built inventory holds in the 'ip' variable of host name:
\* the plugin's variable is one address, get_list's a list of them.
InventoryIps(name) ==
    IF adapter = "plugin"
    THEN {inventory.vars[k][2] : k \in {j \in DOMAIN inventory.vars : inventory.vars[j][1] = name}}
    ELSE UNION {{printed.hostvars[k][2][m] : m \in DOMAIN printed.hostvars[k][2]} :
                    k \in {j \in DOMAIN printed.hostvars : printed.hostvars[j][1] = name}}

\* How many host entries the built inventory lists for name.
InventoryEntries(name) ==
    IF adapter = "plugin"
    THEN Cardinality({k \in DOMAIN inventory.hosts : inventory.hosts[k] = name})
    ELSE Cardinality({k \in DOMAIN printed.ungrouped : printed.ungrouped[k] = name})

\* C5: two records with the same hostname and different addresses end up in
\* one host entry whose 'ip' variable contains both addresses, for the
\* plugin's parse and for get_list.
C5_AggregatesAddresses ==
    (pc = "done" /\ outcome = "ok") =>
        \A j, k \in DOMAIN hosts_data :
            (/\ hosts_data[j].isdict /\ hosts_data[k].isdict
             /\ hosts_data[j].name = hosts_data[k].name
             /\ hosts_data[j].addr # hosts_data[k].addr) =>
                /\ InventoryEntries(hosts_data[j].name) = 1
                /\ {hosts_data[j].addr, hosts_data[k].addr} \subseteq
                       InventoryIps(hosts_data[j].name)

\* C6: no subprocess is spawned unless the executable lookup succeeded, and a
\* failed lookup ends the invocation with the tool-missing error.
C6_NoSpawnWithoutTool ==
    /\ spawned > 0 => lookup = "found"
    /\ lookup = "missing" => (pc = "done" /\ outcome = "ValueError" /\ spawned = 0)

\* The lookup found no executable.
C6_Witness == lookup = "missing" /\ pc = "done"

\* C7: a non-zero exit status ends the invocation in the scan-failed error
\* with the parser never run and no record delivered; parsing and delivery
\* happen only after the single subprocess ended with status 0.
C7_NoParseAfterFailedScan ==
    /\ spawned <= 1
    /\ exitCode = "1" =>
          /\ pc = "done"
          /\ outcome \in {"AnsibleParserError: error while calling Nmap",
                          "CalledProcessError"}
          /\ ~parsed /\ addresses = <<>> /\ hosts_data = <<>>
          /\ inventory \in InitialInventories /\ printed.what = "nothing"
    /\ (parsed \/ addresses # <<>> \/ hosts_data # <<>>) =>
          (exitCode = "0" /\ spawned = 1)

\* The subprocess ended with a non-zero status.
C7_Witness == exitCode = "1" /\ spawned = 1 /\ pc = "done"

\* C8: a successful scan and parse that yield no eligible host end every
\* adapter in an error, not in an empty inventory.
C8_NoHostsIsAnError ==
    (pc = "done" /\ Parsed /\ exitCode = "0" /\ hosts_data = <<>>) => outcome # "ok"

\* C9: the hostname of a record is the first hostname record of its host
\* block in document order, over all of the block's hostnames groups.
C9_FirstHostname ==
    Parsed => \A r \in Emitted : r.isdict => r.name = FirstHostname(stdout[r.src])

\* C10: each host block gets at most one record, whose address is the first
\* address record of the block; an otherwise eligible block without address
\* record still gets its record, with the address absent.
C10_FirstAddressOnly ==
    Parsed =>
        \A i \in DOMAIN stdout :
            /\ RecordsOf(i) <= 1
            /\ \A r \in Emitted : r.src = i =>
                  r.addr = IF stdout[i].address = <<>> THEN None ELSE stdout[i].address[1]
            /\ (Eligible(stdout[i]) /\ stdout[i].address = <<>>) => RecordsOf(i) = 1

\* C11: the plugin's inventory is populated all or nothing.  A step changes
\* the inventory only in the plugin, after the executable lookup succeeded,
\* the single subprocess ended with status 0, the report was parsed and the
\* runner was drained into at least one record, and that step ends the
\* invocation with success; a step that ends the invocation in tool-missing,
\* scan-failed, parse-error or no-hosts leaves the inventory as it was, and
\* nothing changes once the invocation has ended.
C11_AllOrNothing ==
    [][ /\ inventory' # inventory =>
              /\ adapter = "plugin"
              /\ lookup = "found" /\ spawned = 1 /\ exitCode = "0" /\ Parsed
              /\ addresses = <<>> /\ hosts_data # <<>>
              /\ outcome = "running" /\ outcome' = "ok"
        /\ outcome' \notin {"running", "ok"} => inventory' = inventory
        /\ outcome # "running" => (outcome' = outcome /\ inventory' = inventory)
      ]_vars

\* The plugin ended in no-hosts on a report that has host blocks, with the
\* inventory still holding exactly the host it held before the call.
C11_Witness ==
    /\ adapter = "plugin" /\ pc = "done"
    /\ outcome = "AnsibleParserError: Unable to get data for Nmap scan"
    /\ Parsed /\ stdout # <<>>
    /\ inventory = [hosts |-> <<"h1">>, vars |-> << <<"h1", "a0">> >>]

====
